---------------------------- MODULE Spec2Model ----------------------------
(***************************************************************************)
(* A model of shifra (hassannteifeh/encrypt-it): the algorithm registry,   *)
(* SymmetricKey.generate / SymmetricKey.fromString, encrypt and decrypt    *)
(* with the colon-delimited token, over bytes (0..255), JavaScript strings *)
(* (sequences of UTF-16 code units) and texts (sequences of one-character  *)
(* strings).                                                               *)
(***************************************************************************)
EXTENDS Integers, Sequences, FiniteSets, TLC

(***************************************************************************)
(* Bounds of the model.                                                    *)
(***************************************************************************)
\* the number of outcomes of a randomBytes draw that the model explores,
\* for a key and for an initialization vector
NumKeySeeds == 1

NumIvSeeds == 2

\* the largest number an Ok carries in the runs of the Result combinators
MaxValue == 12

\* how many times a callback may prefix an error text in those runs
MaxPrefix == 3

\* the number of encrypt and decrypt invocations in progress at a time
NumCalls == 2

(***************************************************************************)
(* Texts.  A text is a sequence of one-character strings.                  *)
(***************************************************************************)
HexDigitsLower == <<"0","1","2","3","4","5","6","7","8","9","a","b","c","d","e","f">>

HexDigitsUpper == <<"0","1","2","3","4","5","6","7","8","9","A","B","C","D","E","F">>

Min(a, b) == IF a < b THEN a ELSE b

\* the value of each hex digit, either case
HexValueOf ==
    [c \in {HexDigitsLower[i] : i \in 1..16} \cup {HexDigitsUpper[i] : i \in 1..16} |->
        (CHOOSE i \in 1..16 : HexDigitsLower[i] = c \/ HexDigitsUpper[i] = c) - 1]

IsHexDigit(c) == c \in DOMAIN HexValueOf

HexVal(c) == HexValueOf[c]

\* (mutant) a byte below 16 written as one digit
ToHex_NoPadding(buf) ==
    LET Digits(b) == IF b < 16 THEN <<HexDigitsLower[b + 1]>>
                     ELSE <<HexDigitsLower[(b \div 16) + 1], HexDigitsLower[(b % 16) + 1]>>
        F[i \in 0..Len(buf)] == IF i = 0 THEN <<>> ELSE F[i - 1] \o Digits(buf[i])
    IN  F[Len(buf)]

\* (mutant) uppercase digits
ToHex_UpperCase(buf) ==
    [i \in 1..(2 * Len(buf)) |->
        IF i % 2 = 1 THEN HexDigitsUpper[(buf[(i + 1) \div 2] \div 16) + 1]
                     ELSE HexDigitsUpper[(buf[i \div 2] % 16) + 1]]

\* Buffer.prototype.toString('hex'): two lowercase digits per byte
ToHex(buf) ==
    [i \in 1..(2 * Len(buf)) |->
        IF i % 2 = 1 THEN HexDigitsLower[(buf[(i + 1) \div 2] \div 16) + 1]
                     ELSE HexDigitsLower[(buf[i \div 2] % 16) + 1]]

\* Buffer.from(str, 'hex'): decodes pairs of hex digits and stops, without
\* an error, at the first pair that is not two hex digits (a trailing odd
\* digit is dropped)
BufferFromHex(str) ==
    LET pairs == Len(str) \div 2
        bad   == {p \in 1..pairs :
                    ~IsHexDigit(str[2 * p - 1]) \/ ~IsHexDigit(str[2 * p])}
        n     == IF bad = {} THEN pairs
                 ELSE (CHOOSE p \in bad : \A q \in bad : p <= q) - 1
    IN  [i \in 1..n |-> 16 * HexVal(str[2 * i - 1]) + HexVal(str[2 * i])]

\* Array.prototype.join(':')
RECURSIVE JoinColon(_)
JoinColon(parts) ==
    IF Len(parts) = 0 THEN <<>>
    ELSE IF Len(parts) = 1 THEN parts[1]
    ELSE parts[1] \o <<":">> \o JoinColon(Tail(parts))

\* String.prototype.split(':'): always at least one part, empty parts kept
SplitColon(str) ==
    LET cuts  == {i \in 1..Len(str) : str[i] = ":"}
        n     == Cardinality(cuts) + 1
        \* position of the k-th colon, 0 before the text and Len+1 after it
        Cut(k) == IF k = 0 THEN 0
                  ELSE IF k = n THEN Len(str) + 1
                  ELSE CHOOSE i \in cuts : Cardinality({j \in cuts : j <= i}) = k
    IN  [k \in 1..n |-> SubSeq(str, Cut(k - 1) + 1, Cut(k) - 1)]


\* isValidHex (src/utils.ts is not part of the sources): a text that is hex
\* digits only, in whole bytes
isValidHex(str) ==
    /\ Len(str) % 2 = 0
    /\ \A i \in 1..Len(str) : IsHexDigit(str[i])

(***************************************************************************)
(* JavaScript strings (sequences of UTF-16 code units) and UTF-8.          *)
(***************************************************************************)
IsHighSurrogate(u) == u >= 55296 /\ u <= 56319

IsLowSurrogate(u) == u >= 56320 /\ u <= 57343

IsContinuation(b) == b >= 128 /\ b <= 191

\* U+FFFD, what the codec puts for what it cannot encode or decode
ReplacementChar == <<65533>>

Utf8OfCodePoint(cp) ==
    IF cp < 128 THEN <<cp>>
    ELSE IF cp < 2048 THEN <<192 + (cp \div 64), 128 + (cp % 64)>>
    ELSE IF cp < 65536
         THEN <<224 + (cp \div 4096), 128 + ((cp \div 64) % 64), 128 + (cp % 64)>>
    ELSE <<240 + (cp \div 262144), 128 + ((cp \div 4096) % 64),
           128 + ((cp \div 64) % 64), 128 + (cp % 64)>>

\* Buffer.from(str, 'utf-8'): a surrogate pair is one code point, a lone
\* surrogate is encoded as U+FFFD
RECURSIVE Utf8Encode(_)
Utf8Encode(str) ==
    IF Len(str) = 0 THEN <<>>
    ELSE LET u == str[1] IN
         IF IsHighSurrogate(u) /\ Len(str) >= 2 /\ IsLowSurrogate(str[2])
         THEN Utf8OfCodePoint(65536 + (u - 55296) * 1024 + (str[2] - 56320))
                  \o Utf8Encode(SubSeq(str, 3, Len(str)))
         ELSE IF IsHighSurrogate(u) \/ IsLowSurrogate(u)
         THEN Utf8OfCodePoint(ReplacementChar[1]) \o Utf8Encode(Tail(str))
         ELSE Utf8OfCodePoint(u) \o Utf8Encode(Tail(str))

\* Buffer.prototype.toString('utf-8'): ill-formed bytes become U+FFFD
RECURSIVE Utf8Decode(_)
Utf8Decode(buf) ==
    IF Len(buf) = 0 THEN <<>>
    ELSE LET b  == buf[1]
             n  == Len(buf)
             c2 == n >= 2 /\ IsContinuation(buf[2])
             c3 == c2 /\ n >= 3 /\ IsContinuation(buf[3])
             c4 == c3 /\ n >= 4 /\ IsContinuation(buf[4])
             p2 == (b - 192) * 64 + (buf[2] - 128)
             p3 == (b - 224) * 4096 + (buf[2] - 128) * 64 + (buf[3] - 128)
             p4 == (b - 240) * 262144 + (buf[2] - 128) * 4096
                      + (buf[3] - 128) * 64 + (buf[4] - 128)
         IN
         IF b < 128 THEN <<b>> \o Utf8Decode(Tail(buf))
         ELSE IF b >= 194 /\ b <= 223 /\ c2
         THEN <<p2>> \o Utf8Decode(SubSeq(buf, 3, n))
         ELSE IF b >= 224 /\ b <= 239 /\ c3 /\ p3 >= 2048
                 /\ ~(p3 >= 55296 /\ p3 <= 57343)
         THEN <<p3>> \o Utf8Decode(SubSeq(buf, 4, n))
         ELSE IF b >= 240 /\ b <= 244 /\ c4 /\ p4 >= 65536 /\ p4 <= 1114111
         THEN <<55296 + ((p4 - 65536) \div 1024), 56320 + ((p4 - 65536) % 1024)>>
                  \o Utf8Decode(SubSeq(buf, 5, n))
         ELSE ReplacementChar \o Utf8Decode(Tail(buf))

(***************************************************************************)
(* Algorithm registry (src/models.ts).                                     *)
(***************************************************************************)
SymmetricEncryptionAlgorithm ==
    {"aes-128-gcm", "aes-192-gcm", "aes-256-gcm",
     "aes-128-cbc", "aes-192-cbc", "aes-256-cbc"}

symmetricAlgorithmConfig ==
    [algorithm \in SymmetricEncryptionAlgorithm |->
        CASE algorithm = "aes-128-gcm" ->
               [keyLength |-> 128, ivLength |-> 92,
                tokenFormat |-> <<"algorithm", "iv", "authTag", "ciphertext">>]
          [] algorithm = "aes-192-gcm" ->
               [keyLength |-> 192, ivLength |-> 92,
                tokenFormat |-> <<"algorithm", "iv", "authTag", "ciphertext">>]
          [] algorithm = "aes-256-gcm" ->
               [keyLength |-> 256, ivLength |-> 92,
                tokenFormat |-> <<"algorithm", "iv", "authTag", "ciphertext">>]
          [] algorithm = "aes-128-cbc" ->
               [keyLength |-> 128, ivLength |-> 128,
                tokenFormat |-> <<"algorithm", "iv", "ciphertext">>]
          [] algorithm = "aes-192-cbc" ->
               [keyLength |-> 192, ivLength |-> 128,
                tokenFormat |-> <<"algorithm", "iv", "ciphertext">>]
          [] algorithm = "aes-256-cbc" ->
               [keyLength |-> 256, ivLength |-> 128,
                tokenFormat |-> <<"algorithm", "iv", "ciphertext">>]]

supportedSymmetricKeyLengths ==
    {symmetricAlgorithmConfig[a].keyLength : a \in SymmetricEncryptionAlgorithm}

\* the characters of an algorithm identifier, as they stand in a token
AlgorithmText(algorithm) ==
    <<"a", "e", "s", "-">>
    \o (CASE symmetricAlgorithmConfig[algorithm].keyLength = 128 -> <<"1", "2", "8">>
          [] symmetricAlgorithmConfig[algorithm].keyLength = 192 -> <<"1", "9", "2">>
          [] symmetricAlgorithmConfig[algorithm].keyLength = 256 -> <<"2", "5", "6">>)
    \o (IF algorithm \in {"aes-128-gcm", "aes-192-gcm", "aes-256-gcm"}
        THEN <<"-", "g", "c", "m">> ELSE <<"-", "c", "b", "c">>)

(***************************************************************************)
(* Results (Ok / Err) and the completion of a call: it returns a value or  *)
(* it throws.                                                              *)
(***************************************************************************)
ok(value) == [tag |-> "Ok", value |-> value]

err(error) == [tag |-> "Err", error |-> error]

Return(value) == [tag |-> "Return", value |-> value]

Throw(error) == [tag |-> "Throw", error |-> error]

NoCause == [name |-> "none"]

\* new Error(message, { cause })
NewError(message, cause) ==
    [name |-> "Error", message |-> message, cause |-> cause]

(***************************************************************************)
(* The methods of Ok and Err (src/unnamed/part_000).  A method returns a   *)
(* Result; `calls` lists the invocations of the callback it was given.     *)
(* Callbacks are named; Call applies one.                                  *)
(***************************************************************************)
\* the callbacks given to map: (x) => x + 1 and (x) => x * 2
MapCallbacks == {"increment", "double"}

\* the callbacks given to mapErr: (e) => `Error: ${e}` and () => 'New Error'
MapErrCallbacks == {"prefix", "replace"}

\* the callbacks given to andThen: (x) => ok(x + 1) and (x) => err('Refused')
AndThenCallbacks == {"okIncrement", "refuse"}

Call(fn, arg) ==
    CASE fn = "increment"   -> arg + 1
      [] fn = "double"      -> arg * 2
      [] fn = "prefix"      -> <<"Error:">> \o arg
      [] fn = "replace"     -> <<"New Error">>
      [] fn = "okIncrement" -> ok(arg + 1)
      [] fn = "refuse"      -> err(<<"Refused">>)

isOk(result) == IF result.tag = "Ok" THEN TRUE ELSE FALSE

\* (mutant) Err.isErr() answers like Err.isOk()
isErr_AlwaysFalse(result) == FALSE

isErr(result) == IF result.tag = "Ok" THEN FALSE ELSE TRUE

\* (mutant) Err.map builds an Ok, as Ok.map does
map_ErrConstructsOk(result, fn) ==
    IF result.tag = "Ok"
    THEN [returned |-> ok(Call(fn, result.value)),
          calls |-> <<[fn |-> fn, arg |-> result.value]>>]
    ELSE [returned |-> ok(result.error), calls |-> <<>>]

map(result, fn) ==
    IF result.tag = "Ok"
    THEN [returned |-> ok(Call(fn, result.value)),
          calls |-> <<[fn |-> fn, arg |-> result.value]>>]
    ELSE [returned |-> err(result.error), calls |-> <<>>]

mapErr(result, fn) ==
    IF result.tag = "Ok"
    THEN [returned |-> ok(result.value), calls |-> <<>>]
    ELSE [returned |-> err(Call(fn, result.error)),
          calls |-> <<[fn |-> fn, arg |-> result.error]>>]

andThen(result, fn) ==
    IF result.tag = "Ok"
    THEN [returned |-> Call(fn, result.value),
          calls |-> <<[fn |-> fn, arg |-> result.value]>>]
    ELSE [returned |-> err(result.error), calls |-> <<>>]

(***************************************************************************)
(* The platform primitives the code calls (node:crypto), by what they do.  *)
(* AES itself is abstracted: a keyed, IV-dependent, invertible byte        *)
(* transformation, and a tag that depends on key, IV and ciphertext.       *)
(***************************************************************************)
\* randomBytes(bits / 8): the size is converted to an unsigned integer
\* (11.5 becomes 11); `seed` selects the outcome of the draw
randomBytes(bits, seed) ==
    IF bits < 0
    THEN Throw([name |-> "RangeError", message |-> "size is out of range"])
    ELSE Return([i \in 1..(bits \div 8) |-> (97 * seed + 31 * i + 5) % 256])

IsGcm(algorithm) == algorithm \in {"aes-128-gcm", "aes-192-gcm", "aes-256-gcm"}

RECURSIVE DigestFrom(_, _)
DigestFrom(buf, i) ==
    IF i > Len(buf) THEN Len(buf) % 256
    ELSE ((2 * i + 1) * buf[i] + DigestFrom(buf, i + 1)) % 256

Digest(buf) == DigestFrom(buf, 1)

\* the key stream byte at position i under (key digest, iv digest)
KeyStream(dk, di, i) == (dk + 3 * di + 7 * i) % 256

Transform(key, iv, data) ==
    LET dk == Digest(key)
        di == Digest(iv)
    IN  [i \in 1..Len(data) |-> (data[i] + KeyStream(dk, di, i)) % 256]

InverseTransform(key, iv, data) ==
    LET dk == Digest(key)
        di == Digest(iv)
    IN  [i \in 1..Len(data) |-> (data[i] + 256 - KeyStream(dk, di, i)) % 256]

\* the 16-byte GCM tag over key, IV and ciphertext
GcmTag(key, iv, ciphertext) ==
    LET h == (Digest(key) + 5 * Digest(iv) + 11 * Digest(ciphertext)) % 256
    IN  [j \in 1..16 |-> (h + 29 * j) % 256]

\* the tag lengths decipher.setAuthTag accepts in GCM mode when no
\* authTagLength option was given to createDecipheriv
GcmAcceptedTagLengths == {4, 8, 12, 13, 14, 15, 16}

\* PKCS#7: 1..16 bytes of padding, each holding the padding length
Pkcs7Pad(data) ==
    LET p == 16 - (Len(data) % 16)
    IN  data \o [i \in 1..p |-> p]

Pkcs7Valid(data) ==
    /\ Len(data) > 0
    /\ Len(data) % 16 = 0
    /\ LET p == data[Len(data)]
       IN  /\ p >= 1
           /\ p <= 16
           /\ \A i \in (Len(data) - p + 1)..Len(data) : data[i] = p

\* createCipheriv(algorithm, key, iv); update(plaintext), final(), and
\* getAuthTag() in GCM mode
CipherRun(algorithm, rawKey, iv, plainTextBuffer) ==
    IF Len(rawKey) * 8 # symmetricAlgorithmConfig[algorithm].keyLength
    THEN Throw([name |-> "RangeError", message |-> "Invalid key length"])
    ELSE IF IsGcm(algorithm)
    THEN IF Len(iv) = 0
         THEN Throw([name |-> "TypeError", message |-> "Invalid initialization vector"])
         ELSE LET ciphertext == Transform(rawKey, iv, plainTextBuffer)
              IN  Return([ciphertext |-> ciphertext,
                          authTag |-> GcmTag(rawKey, iv, ciphertext)])
    ELSE IF Len(iv) # 16
         THEN Throw([name |-> "TypeError", message |-> "Invalid initialization vector"])
         ELSE Return([ciphertext |-> Transform(rawKey, iv, Pkcs7Pad(plainTextBuffer))])

\* createDecipheriv(algorithm, key, iv); setAuthTag(authTag) in GCM mode;
\* update(ciphertext), final()
DecipherRun(algorithm, rawKey, iv, authTag, ciphertext) ==
    IF Len(rawKey) * 8 # symmetricAlgorithmConfig[algorithm].keyLength
    THEN Throw([name |-> "RangeError", message |-> "Invalid key length"])
    ELSE IF IsGcm(algorithm)
    THEN IF Len(iv) = 0
         THEN Throw([name |-> "TypeError", message |-> "Invalid initialization vector"])
         ELSE IF Len(authTag) \notin GcmAcceptedTagLengths
         THEN Throw([name |-> "TypeError", message |-> "Invalid authentication tag length"])
         ELSE IF SubSeq(GcmTag(rawKey, iv, ciphertext), 1, Len(authTag)) # authTag
         THEN Throw([name |-> "Error",
                     message |-> "Unsupported state or unable to authenticate data"])
         ELSE Return(InverseTransform(rawKey, iv, ciphertext))
    ELSE IF Len(iv) # 16
         THEN Throw([name |-> "TypeError", message |-> "Invalid initialization vector"])
         ELSE IF Len(ciphertext) % 16 # 0
         THEN Throw([name |-> "Error", message |-> "wrong final block length"])
         ELSE LET padded == InverseTransform(rawKey, iv, ciphertext)
              IN  IF ~Pkcs7Valid(padded)
                  THEN Throw([name |-> "Error", message |-> "bad decrypt"])
                  ELSE Return(SubSeq(padded, 1, Len(padded) - padded[Len(padded)]))

(***************************************************************************)
(* SymmetricKey (src/src/keys/symmetric-key.test.ts holds the class).      *)
(***************************************************************************)
InvalidKeyLengthError(providedKeyLength) ==
    [name |-> "InvalidKeyLengthError",
     providedKeyLength |-> providedKeyLength,
     supportedLengths |-> supportedSymmetricKeyLengths]

\* (mutant) the constructor accepts any length
SymmetricKeyConstructor_NoCheck(key) == Return([rawKey |-> key])

\* private constructor(key: Buffer): throws on an unsupported length
SymmetricKeyConstructor(key) ==
    LET keyLengthInBits == Len(key) * 8 IN
    IF keyLengthInBits \notin supportedSymmetricKeyLengths
    THEN Throw(InvalidKeyLengthError(keyLengthInBits))
    ELSE Return([rawKey |-> key])

\* catch (error) of generate
generateCatch(thrown) ==
    Return(err(NewError("generate encountered an exception", thrown.error)))

\* static generate(lengthInBits): the completion of the call, and what was
\* thrown inside it (`raised`, <<>> when nothing was)
generate(lengthInBits, seed) ==
    LET randomKeyBuffer == randomBytes(lengthInBits, seed) IN
    IF randomKeyBuffer.tag = "Throw"
    THEN [completion |-> generateCatch(randomKeyBuffer),
          raised |-> <<randomKeyBuffer.error>>]
    ELSE LET made == SymmetricKeyConstructor(randomKeyBuffer.value)
         IN  IF made.tag = "Throw"
             THEN [completion |-> generateCatch(made), raised |-> <<made.error>>]
             ELSE [completion |-> Return(ok(made.value)), raised |-> <<>>]

\* catch (error) of fromString
fromStringCatch(thrown) ==
    Return(err(NewError("fromString encountered an exception", thrown.error)))

\* static fromString(str, 'hex'): the completion of the call, and what was
\* thrown inside it
fromString(str) ==
    LET keyBuffer       == BufferFromHex(str)
        keyLengthInBits == Len(keyBuffer) * 8
    IN  IF keyLengthInBits \notin supportedSymmetricKeyLengths
        THEN [completion |-> Return(err(InvalidKeyLengthError(keyLengthInBits))),
              raised |-> <<>>]
        ELSE LET made == SymmetricKeyConstructor(keyBuffer)
             IN  IF made.tag = "Throw"
                 THEN [completion |-> fromStringCatch(made), raised |-> <<made.error>>]
                 ELSE [completion |-> Return(ok(made.value)), raised |-> <<>>]

(***************************************************************************)
(* Encryption engine (src/src/encryption/symmetric-encryption.ts).         *)
(***************************************************************************)
\* (mutant) the expected and the provided length change places
AlgorithmKeyLengthMismatch_Swapped(providedKeyLengthInBits, algorithm) ==
    [name |-> "AlgorithmKeyLengthMismatch",
     algorithm |-> algorithm,
     expected |-> providedKeyLengthInBits,
     got |-> symmetricAlgorithmConfig[algorithm].keyLength]

AlgorithmKeyLengthMismatch(providedKeyLengthInBits, algorithm) ==
    [name |-> "AlgorithmKeyLengthMismatch",
     algorithm |-> algorithm,
     expected |-> symmetricAlgorithmConfig[algorithm].keyLength,
     got |-> providedKeyLengthInBits]

\* errors.ts is not part of the sources; the constructor is given the
\* offending first field
UnsupportedOrInvalidAlgorithm(algorithmPart) ==
    [name |-> "UnsupportedOrInvalidAlgorithm", algorithm |-> algorithmPart]

\* (mutant) the authTag and the ciphertext are taken from each other's field
parseTokenForAesGcm_SwappedFields(algorithm, parts, token) ==
    LET ivPart         == parts[2]
        tagPart        == parts[4]
        ciphertextPart == parts[3]
    IN  IF \/ Len(ivPart) = 0
           \/ Len(tagPart) = 0
           \/ Len(ciphertextPart) = 0
           \/ ~isValidHex(ivPart)
           \/ ~isValidHex(tagPart)
           \/ ~isValidHex(ciphertextPart)
        THEN err(NewError("Invalid token", NoCause))
        ELSE ok([algorithm |-> algorithm,
                 iv |-> BufferFromHex(ivPart),
                 authTag |-> BufferFromHex(tagPart),
                 ciphertext |-> BufferFromHex(ciphertextPart),
                 token |-> token])

parseTokenForAesGcm(algorithm, parts, token) ==
    LET ivPart         == parts[2]
        tagPart        == parts[3]
        ciphertextPart == parts[4]
    IN  IF \/ Len(ivPart) = 0
           \/ Len(tagPart) = 0
           \/ Len(ciphertextPart) = 0
           \/ ~isValidHex(ivPart)
           \/ ~isValidHex(tagPart)
           \/ ~isValidHex(ciphertextPart)
        THEN err(NewError("Invalid token", NoCause))
        ELSE ok([algorithm |-> algorithm,
                 iv |-> BufferFromHex(ivPart),
                 authTag |-> BufferFromHex(tagPart),
                 ciphertext |-> BufferFromHex(ciphertextPart),
                 token |-> token])

\* (mutant) the ciphertext field is not looked at
parseTokenForAesCbc_IvOnly(algorithm, parts, token) ==
    LET ivPart         == parts[2]
        ciphertextPart == parts[3]
    IN  IF \/ Len(ivPart) = 0
           \/ ~isValidHex(ivPart)
        THEN err(NewError("Invalid token", NoCause))
        ELSE ok([algorithm |-> algorithm,
                 iv |-> BufferFromHex(ivPart),
                 ciphertext |-> BufferFromHex(ciphertextPart),
                 token |-> token])

parseTokenForAesCbc(algorithm, parts, token) ==
    LET ivPart         == parts[2]
        ciphertextPart == parts[3]
    IN  IF \/ Len(ivPart) = 0
           \/ Len(ciphertextPart) = 0
           \/ ~isValidHex(ivPart)
           \/ ~isValidHex(ciphertextPart)
        THEN err(NewError("Invalid token", NoCause))
        ELSE ok([algorithm |-> algorithm,
                 iv |-> BufferFromHex(ivPart),
                 ciphertext |-> BufferFromHex(ciphertextPart),
                 token |-> token])

\* (mutant) the failure carries the whole token, not its first field
parseToken_ReportsToken(token) ==
    LET parts         == SplitColon(token)
        algorithmPart == parts[1]
        gcm == {a \in SymmetricEncryptionAlgorithm :
                    IsGcm(a) /\ AlgorithmText(a) = algorithmPart}
        cbc == {a \in SymmetricEncryptionAlgorithm :
                    ~IsGcm(a) /\ AlgorithmText(a) = algorithmPart}
    IN  IF gcm # {} /\ Len(parts) = 4
        THEN parseTokenForAesGcm(CHOOSE a \in gcm : TRUE, parts, token)
        ELSE IF cbc # {} /\ Len(parts) = 3
        THEN parseTokenForAesCbc(CHOOSE a \in cbc : TRUE, parts, token)
        ELSE err(UnsupportedOrInvalidAlgorithm(token))

parseToken(token) ==
    LET parts         == SplitColon(token)
        algorithmPart == parts[1]
        gcm == {a \in SymmetricEncryptionAlgorithm :
                    IsGcm(a) /\ AlgorithmText(a) = algorithmPart}
        cbc == {a \in SymmetricEncryptionAlgorithm :
                    ~IsGcm(a) /\ AlgorithmText(a) = algorithmPart}
    IN  IF gcm # {} /\ Len(parts) = 4
        THEN parseTokenForAesGcm(CHOOSE a \in gcm : TRUE, parts, token)
        ELSE IF cbc # {} /\ Len(parts) = 3
        THEN parseTokenForAesCbc(CHOOSE a \in cbc : TRUE, parts, token)
        ELSE err(UnsupportedOrInvalidAlgorithm(algorithmPart))

\* catch (error) of encrypt
encryptCatch(thrown) ==
    Return(err(NewError("encrypt encountered an exception", thrown.error)))

\* (mutant) decrypt without its catch: what is thrown leaves the call
decryptCatch_Rethrow(thrown) == thrown

\* (mutant) the catch of decrypt swallows the failure: Ok of an empty string
decryptCatch_ReturnsEmpty(thrown) == Return(ok(<<>>))

\* catch (error) of decrypt
decryptCatch(thrown) ==
    Return(err(NewError("decrypt encountered an exception", thrown.error)))

\* (mutant) encrypt checks the key length before the empty plaintext
encrypt_KeyCheckFirst(algorithm, key, plainText, seed) ==
    LET plainTextBuffer         == Utf8Encode(plainText)
        rawKey                  == key.rawKey
        expectedKeyLengthInBits == symmetricAlgorithmConfig[algorithm].keyLength
        rawKeyLengthInBits      == Len(rawKey) * 8
    IN
    IF rawKeyLengthInBits # expectedKeyLengthInBits
    THEN [completion |->
              Return(err(AlgorithmKeyLengthMismatch(rawKeyLengthInBits, algorithm))),
          drawn |-> <<>>, raised |-> <<>>]
    ELSE
    IF Len(plainText) = 0
    THEN [completion |-> Return(err(NewError("plaintext can not be empty", NoCause))),
          drawn |-> <<>>, raised |-> <<>>]
    ELSE
    LET draw == randomBytes(symmetricAlgorithmConfig[algorithm].ivLength, seed) IN
    IF draw.tag = "Throw"
    THEN [completion |-> encryptCatch(draw), drawn |-> <<>>, raised |-> <<draw.error>>]
    ELSE
    LET iv     == draw.value
        cipher == CipherRun(algorithm, rawKey, iv, plainTextBuffer)
    IN
    [drawn |-> <<iv>>,
     raised |-> IF cipher.tag = "Throw" THEN <<cipher.error>> ELSE <<>>,
     completion |->
        IF cipher.tag = "Throw" THEN encryptCatch(cipher)
        ELSE IF IsGcm(algorithm)
        THEN IF Len(cipher.value.authTag) = 0
             THEN Return(err(NewError("Authentication tag is empty", NoCause)))
             ELSE Return(ok(
                    [algorithm |-> algorithm,
                     iv |-> iv,
                     authTag |-> cipher.value.authTag,
                     ciphertext |-> cipher.value.ciphertext,
                     token |-> JoinColon(<<AlgorithmText(algorithm),
                                           ToHex(iv),
                                           ToHex(cipher.value.authTag),
                                           ToHex(cipher.value.ciphertext)>>)]))
        ELSE IF Len(cipher.value.ciphertext) = 0
             THEN Return(err(NewError("ciphertext is empty", NoCause)))
             ELSE Return(ok(
                    [algorithm |-> algorithm,
                     iv |-> iv,
                     ciphertext |-> cipher.value.ciphertext,
                     token |-> JoinColon(<<AlgorithmText(algorithm),
                                           ToHex(iv),
                                           ToHex(cipher.value.ciphertext)>>)]))]

\* the completion of a call encrypt({algorithm, key, plainText,
\* plainTextEncoding: 'utf-8'}), what the call drew from randomBytes
\* (`drawn`, <<>> when it drew nothing) and what was thrown inside it
encrypt(algorithm, key, plainText, seed) ==
    IF Len(plainText) = 0
    THEN [completion |-> Return(err(NewError("plaintext can not be empty", NoCause))),
          drawn |-> <<>>, raised |-> <<>>]
    ELSE
    LET plainTextBuffer         == Utf8Encode(plainText)
        rawKey                  == key.rawKey
        expectedKeyLengthInBits == symmetricAlgorithmConfig[algorithm].keyLength
        rawKeyLengthInBits      == Len(rawKey) * 8
    IN
    IF rawKeyLengthInBits # expectedKeyLengthInBits
    THEN [completion |->
              Return(err(AlgorithmKeyLengthMismatch(rawKeyLengthInBits, algorithm))),
          drawn |-> <<>>, raised |-> <<>>]
    ELSE
    LET draw == randomBytes(symmetricAlgorithmConfig[algorithm].ivLength, seed) IN
    IF draw.tag = "Throw"
    THEN [completion |-> encryptCatch(draw), drawn |-> <<>>, raised |-> <<draw.error>>]
    ELSE
    LET iv     == draw.value
        cipher == CipherRun(algorithm, rawKey, iv, plainTextBuffer)
    IN
    [drawn |-> <<iv>>,
     raised |-> IF cipher.tag = "Throw" THEN <<cipher.error>> ELSE <<>>,
     completion |->
        IF cipher.tag = "Throw" THEN encryptCatch(cipher)
        ELSE IF IsGcm(algorithm)
        THEN IF Len(cipher.value.authTag) = 0
             THEN Return(err(NewError("Authentication tag is empty", NoCause)))
             ELSE Return(ok(
                    [algorithm |-> algorithm,
                     iv |-> iv,
                     authTag |-> cipher.value.authTag,
                     ciphertext |-> cipher.value.ciphertext,
                     token |-> JoinColon(<<AlgorithmText(algorithm),
                                           ToHex(iv),
                                           ToHex(cipher.value.authTag),
                                           ToHex(cipher.value.ciphertext)>>)]))
        ELSE IF Len(cipher.value.ciphertext) = 0
             THEN Return(err(NewError("ciphertext is empty", NoCause)))
             ELSE Return(ok(
                    [algorithm |-> algorithm,
                     iv |-> iv,
                     ciphertext |-> cipher.value.ciphertext,
                     token |-> JoinColon(<<AlgorithmText(algorithm),
                                           ToHex(iv),
                                           ToHex(cipher.value.ciphertext)>>)]))]

\* (mutant) decrypt without its key length check: the key goes to the cipher
decrypt_NoKeyCheck(token, key) ==
    LET parseResult == parseToken(token) IN
    IF parseResult.tag = "Err"
    THEN [completion |-> Return(err(parseResult.error)), stage |-> "Parsing",
          raised |-> <<>>]
    ELSE
    LET algorithm  == parseResult.value.algorithm
        iv         == parseResult.value.iv
        ciphertext == parseResult.value.ciphertext
        rawKey     == key.rawKey
        decipher   == DecipherRun(algorithm, rawKey, iv,
                                  IF IsGcm(algorithm) THEN parseResult.value.authTag
                                                      ELSE <<>>,
                                  ciphertext)
    IN
    IF decipher.tag = "Throw"
    THEN [completion |-> decryptCatch(decipher), stage |-> "CipherExecution",
          raised |-> <<decipher.error>>]
    ELSE IF Len(decipher.value) = 0
    THEN [completion |-> Return(err(NewError("Failed to decrypt", NoCause))),
          stage |-> "CipherExecution", raised |-> <<>>]
    ELSE [completion |-> Return(ok(Utf8Decode(decipher.value))), stage |-> "Done",
          raised |-> <<>>]

\* the completion of a call decrypt({key, token}), the last stage the call
\* entered and what was thrown inside it
decrypt(token, key) ==
    LET parseResult == parseToken(token) IN
    IF parseResult.tag = "Err"
    THEN [completion |-> Return(err(parseResult.error)), stage |-> "Parsing",
          raised |-> <<>>]
    ELSE
    LET algorithm          == parseResult.value.algorithm
        iv                 == parseResult.value.iv
        ciphertext         == parseResult.value.ciphertext
        rawKey             == key.rawKey
        keyLengthInBits    == symmetricAlgorithmConfig[algorithm].keyLength
        rawKeyLengthInBits == Len(rawKey) * 8
    IN
    IF rawKeyLengthInBits # keyLengthInBits
    THEN [completion |->
              Return(err(AlgorithmKeyLengthMismatch(rawKeyLengthInBits, algorithm))),
          stage |-> "KeyValidation", raised |-> <<>>]
    ELSE
    LET decipher == DecipherRun(algorithm, rawKey, iv,
                                IF IsGcm(algorithm) THEN parseResult.value.authTag
                                                    ELSE <<>>,
                                ciphertext)
    IN
    IF decipher.tag = "Throw"
    THEN [completion |-> decryptCatch(decipher), stage |-> "CipherExecution",
          raised |-> <<decipher.error>>]
    ELSE IF Len(decipher.value) = 0
    THEN [completion |-> Return(err(NewError("Failed to decrypt", NoCause))),
          stage |-> "CipherExecution", raised |-> <<>>]
    ELSE [completion |-> Return(ok(Utf8Decode(decipher.value))), stage |-> "Done",
          raised |-> <<>>]

(***************************************************************************)
(* The inputs the model draws.                                             *)
(***************************************************************************)
KeySeeds == 0..(NumKeySeeds - 1)

\* an IV draw never repeats a key draw's seed
IvSeeds == NumKeySeeds..(NumKeySeeds + NumIvSeeds - 1)

\* the lengths asked of SymmetricKey.generate: the three supported ones,
\* 130 (not a multiple of 8), and 64 and 0 (unsupported)
GenerateLengths == {128, 192, 256, 130, 64, 0}

Hex16 == HexDigitsLower

\* "0123456789abcdef0123456789abcdef", 16 bytes
HexKey128 == Hex16 \o Hex16

\* the texts given to SymmetricKey.fromString
KeyStrings ==
    { HexKey128,
      HexKey128 \o HexKey128,
      Hex16,
      HexKey128 \o <<"z", "z">>,
      <<"s","o","m","e"," ","i","n","v","a","l","i","d"," ","h","e","x">>,
      <<>> }

\* "Hi", "é€" + one astral character, sixteen "A" (one AES block), a lone
\* high surrogate, and the empty string
PlainTexts ==
    { <<72, 105>>,
      <<233, 8364, 55357, 56832>>,
      [i \in 1..16 |-> 65],
      <<55296>>,
      <<>> }

\* a string is well-formed when every surrogate is part of a pair
RECURSIVE IsWellFormed(_)
IsWellFormed(str) ==
    IF Len(str) = 0 THEN TRUE
    ELSE IF IsHighSurrogate(str[1])
    THEN Len(str) >= 2 /\ IsLowSurrogate(str[2]) /\ IsWellFormed(SubSeq(str, 3, Len(str)))
    ELSE ~IsLowSurrogate(str[1]) /\ IsWellFormed(Tail(str))

\* tokens that no encrypt call produced
ForeignTokens ==
    { <<"i","n","v","a","l","i","d"," ","t","o","k","e","n">>,
      <<>>,
      AlgorithmText("aes-256-gcm"),
      JoinColon(<<AlgorithmText("aes-128-gcm"), <<"z","z">>, <<"0","0">>, <<"0","0">>>>),
      JoinColon(<<AlgorithmText("aes-128-gcm"), <<>>, <<"a","b">>, <<"c","d">>>>),
      JoinColon(<<AlgorithmText("aes-128-cbc"), <<"0","0">>, <<"1","1">>, <<"2","2">>>>),
      JoinColon(<<AlgorithmText("aes-192-cbc"), <<"0","0">>, <<"1","1","2">>>>),
      JoinColon(<<AlgorithmText("aes-256-cbc"), <<"0","0">>, <<>>>>),
      JoinColon(<<AlgorithmText("aes-128-cbc"), <<"0","0">>, <<"1","1","2","2">>>>),
      JoinColon(<<<<"a","e","s","-","5","1","2","-","g","c","m">>,
                  <<"0","0">>, <<"0","0">>, <<"0","0">>>>) }

\* what a caller may put in the place of one hex field of a token: the same
\* number of bytes with the first one changed, one byte more, and a proper
\* prefix of at most 4 bytes
Replacements(hexField) ==
    LET bytes == BufferFromHex(hexField)
        n     == Len(bytes)
    IN  { ToHex([bytes EXCEPT ![1] = (@ + 1) % 256]),
          ToHex(bytes \o <<0>>),
          ToHex(SubSeq(bytes, 1, Min(4, n - 1))) } \ {<<>>}

\* the tokens that differ from `token` in exactly one field after the first
TamperedTokens(token) ==
    LET parts == SplitColon(token)
    IN  { JoinColon([parts EXCEPT ![k] = r]) :
            <<k, r>> \in UNION {{<<k, r>> : r \in Replacements(parts[k])} :
                                k \in 2..Len(parts)} }

(***************************************************************************)
(* State.                                                                  *)
(***************************************************************************)
VARIABLES
    key,    \* the SymmetricKey the caller holds, or NoKey
    held,   \* the latest successful encryption the caller holds, or NoToken
    last,   \* the call that has just completed, with its inputs, or NoCall
    frames, \* the locals of the encrypt and decrypt invocations in progress
    registry \* the symmetricAlgorithmConfig object of the module

vars == <<key, held, last, frames, registry>>

NoKey == [rawKey |-> <<>>, none |-> TRUE]

NoToken == [none |-> TRUE]

NoCall == [op |-> "none"]

\* no invocation is in progress
NoFrames == <<>>

Init ==
    /\ key = NoKey
    /\ held = NoToken
    /\ last = NoCall
    /\ frames = NoFrames
    /\ registry = symmetricAlgorithmConfig

\* the caller keeps the key of a successful construction
KeyAfter(completion) ==
    IF completion.tag = "Return" /\ completion.value.tag = "Ok"
    THEN completion.value.value ELSE key

Generate ==
    /\ last = NoCall
    /\ \E lengthInBits \in GenerateLengths, seed \in KeySeeds :
        LET run == generate(lengthInBits, seed) IN
        /\ last' = [op |-> "generate", lengthInBits |-> lengthInBits,
                    completion |-> run.completion, raised |-> run.raised]
        /\ key' = KeyAfter(run.completion)
        /\ UNCHANGED <<held, frames, registry>>

FromString ==
    /\ last = NoCall
    /\ \E str \in KeyStrings :
        LET run == fromString(str) IN
        /\ last' = [op |-> "fromString", str |-> str,
                    completion |-> run.completion, raised |-> run.raised]
        /\ key' = KeyAfter(run.completion)
        /\ UNCHANGED <<held, frames, registry>>

Encrypt ==
    /\ last = NoCall
    /\ key # NoKey
    /\ \E algorithm \in SymmetricEncryptionAlgorithm, plainText \in PlainTexts,
          seed \in IvSeeds :
        LET run  == encrypt(algorithm, key, plainText, seed)
            done == run.completion.tag = "Return" /\ run.completion.value.tag = "Ok"
            same == /\ held # NoToken
                    /\ held.algorithm = algorithm
                    /\ held.key = key
                    /\ held.plainText = plainText
        IN
        /\ last' = [op |-> "encrypt", algorithm |-> algorithm, key |-> key,
                    plainText |-> plainText, completion |-> run.completion,
                    drawn |-> run.drawn, raised |-> run.raised,
                    \* the earlier successful call with the same inputs, if any
                    earlier |-> IF same THEN held ELSE NoToken]
        /\ held' = IF done
                   THEN [algorithm |-> algorithm, key |-> key,
                         plainText |-> plainText,
                         data |-> run.completion.value.value]
                   ELSE held
        /\ UNCHANGED <<key, frames, registry>>

Decrypt ==
    /\ last = NoCall
    /\ key # NoKey
    /\ \E token \in ForeignTokens \cup
                    (IF held = NoToken THEN {}
                     ELSE {held.data.token} \cup TamperedTokens(held.data.token)) :
        LET run == decrypt(token, key) IN
        /\ last' = [op |-> "decrypt", token |-> token, key |-> key,
                    completion |-> run.completion, stage |-> run.stage,
                    raised |-> run.raised]
        /\ UNCHANGED <<key, held, frames, registry>>

\* the caller has looked at the completion and goes on to its next call
Continue ==
    /\ last # NoCall
    /\ last' = NoCall
    /\ UNCHANGED <<key, held, frames, registry>>

Next == Generate \/ FromString \/ Encrypt \/ Decrypt \/ Continue

Spec == Init /\ [][Next]_vars

(***************************************************************************)
(* The Result combinators on their own: a caller holds a Result and        *)
(* applies map, mapErr or andThen to it, then goes on with the Result the  *)
(* method returned.  `last` holds the latest method call.                  *)
(***************************************************************************)
\* ok(0), ok(1) and err('Error'), as the tests build them
InitialResults == {ok(0), ok(1), err(<<"Error">>)}

InitResult ==
    /\ key = NoKey
    /\ held = NoToken
    /\ frames = NoFrames
    /\ registry = symmetricAlgorithmConfig
    /\ \E result \in InitialResults :
          last = [op |-> "result", completion |-> Return(result)]

\* the callback's result stays within the bounds of the run
WithinBounds(result, fn) ==
    CASE fn = "double" ->
            (result.tag = "Ok" => 2 * result.value <= MaxValue)
      [] fn \in {"increment", "okIncrement"} ->
            (result.tag = "Ok" => result.value + 1 <= MaxValue)
      [] fn = "prefix" ->
            (result.tag = "Err" => Len(result.error) <= MaxPrefix)
      [] OTHER -> TRUE

ResultCall(op, fn, run) ==
    /\ last' = [op |-> op, receiver |-> last.completion.value, fn |-> fn,
                completion |-> Return(run.returned), calls |-> run.calls,
                isOk |-> isOk(run.returned), isErr |-> isErr(run.returned)]
    /\ UNCHANGED <<key, held, frames, registry>>

Map ==
    \E fn \in MapCallbacks :
        /\ WithinBounds(last.completion.value, fn)
        /\ ResultCall("map", fn, map(last.completion.value, fn))

MapErr ==
    \E fn \in MapErrCallbacks :
        /\ WithinBounds(last.completion.value, fn)
        /\ ResultCall("mapErr", fn, mapErr(last.completion.value, fn))

AndThen ==
    \E fn \in AndThenCallbacks :
        /\ WithinBounds(last.completion.value, fn)
        /\ ResultCall("andThen", fn, andThen(last.completion.value, fn))

NextResult == Map \/ MapErr \/ AndThen

SpecResult == InitResult /\ [][NextResult]_vars

(***************************************************************************)
(* Invocations of encrypt and decrypt in progress at the same time on one  *)
(* key, each advancing statement by statement in any interleaving.  The    *)
(* key object and the registry are the only objects the invocations have   *)
(* in common; everything else is a local of the invocation, in its frame.  *)
(***************************************************************************)
Calls == 1..NumCalls

Idle == [pc |-> "idle", iv |-> <<>>]

\* (mutant) `iv` is a variable of the module: every invocation writes and
\* reads the same one
IvOwner_ModuleLevel(c) == 1

\* `const iv` is a local of the invocation that draws it
IvOwner(c) == c

\* the algorithms asked of the invocations: two that fit a 128-bit key and
\* one that does not
ConcurrentAlgorithms == {"aes-128-gcm", "aes-128-cbc", "aes-256-gcm"}

\* "Hi"
ConcurrentPlainText == <<72, 105>>

\* the tokens given to the decrypt invocations: one that encrypt returns
\* for the key, and "invalid token"
ConcurrentTokens(k) ==
    { encrypt("aes-128-gcm", k, ConcurrentPlainText, NumKeySeeds).completion.value.value.token,
      <<"i","n","v","a","l","i","d"," ","t","o","k","e","n">> }

InitConcurrent ==
    /\ \E seed \in KeySeeds : key = generate(128, seed).completion.value.value
    /\ held = NoToken
    /\ last = NoCall
    /\ frames = [c \in Calls |-> Idle]
    /\ registry = symmetricAlgorithmConfig

\* the invocation ends with `completion`
Done(c, completion) ==
    frames' = [frames EXCEPT ![c].pc = "done", ![c].completion = completion]

\* encrypt({algorithm, key, plainText, plainTextEncoding: 'utf-8'}) is called
CallEncrypt(c) ==
    /\ frames[c].pc = "idle"
    /\ \E algorithm \in ConcurrentAlgorithms :
          frames' = [frames EXCEPT ![c] =
                        [pc |-> "encrypt:check", op |-> "encrypt",
                         algorithm |-> algorithm, plainText |-> ConcurrentPlainText,
                         calledWith |-> key, seed |-> NumKeySeeds,
                         iv |-> <<>>, completion |-> NoCall]]
    /\ UNCHANGED <<key, held, last, registry>>

\* lines 239-249: the empty check and the key length check
EncryptCheck(c) ==
    /\ frames[c].pc = "encrypt:check"
    /\ LET rawKeyLengthInBits == Len(key.rawKey) * 8 IN
       IF Len(frames[c].plainText) = 0
       THEN Done(c, Return(err(NewError("plaintext can not be empty", NoCause))))
       ELSE IF rawKeyLengthInBits # registry[frames[c].algorithm].keyLength
       THEN Done(c, Return(err(AlgorithmKeyLengthMismatch(rawKeyLengthInBits,
                                                          frames[c].algorithm))))
       ELSE frames' = [frames EXCEPT ![c].pc = "encrypt:draw"]
    /\ UNCHANGED <<key, held, last, registry>>

\* line 250: const iv = randomBytes(ivLength / 8)
EncryptDraw(c) ==
    /\ frames[c].pc = "encrypt:draw"
    /\ \E seed \in IvSeeds :
          LET draw == randomBytes(registry[frames[c].algorithm].ivLength, seed) IN
          IF draw.tag = "Throw"
          THEN Done(c, encryptCatch(draw))
          ELSE frames' = [[frames EXCEPT ![c].pc = "encrypt:cipher", ![c].seed = seed]
                             EXCEPT ![IvOwner(c)].iv = draw.value]
    /\ UNCHANGED <<key, held, last, registry>>

\* lines 252-311: the cipher, the token and the result object
EncryptCipher(c) ==
    /\ frames[c].pc = "encrypt:cipher"
    /\ LET algorithm == frames[c].algorithm
           iv        == frames[IvOwner(c)].iv
           cipher    == CipherRun(algorithm, key.rawKey, iv,
                                  Utf8Encode(frames[c].plainText))
       IN  Done(c,
             IF cipher.tag = "Throw" THEN encryptCatch(cipher)
             ELSE IF IsGcm(algorithm)
             THEN IF Len(cipher.value.authTag) = 0
                  THEN Return(err(NewError("Authentication tag is empty", NoCause)))
                  ELSE Return(ok(
                         [algorithm |-> algorithm,
                          iv |-> iv,
                          authTag |-> cipher.value.authTag,
                          ciphertext |-> cipher.value.ciphertext,
                          token |-> JoinColon(<<AlgorithmText(algorithm),
                                                ToHex(iv),
                                                ToHex(cipher.value.authTag),
                                                ToHex(cipher.value.ciphertext)>>)]))
             ELSE IF Len(cipher.value.ciphertext) = 0
                  THEN Return(err(NewError("ciphertext is empty", NoCause)))
                  ELSE Return(ok(
                         [algorithm |-> algorithm,
                          iv |-> iv,
                          ciphertext |-> cipher.value.ciphertext,
                          token |-> JoinColon(<<AlgorithmText(algorithm),
                                                ToHex(iv),
                                                ToHex(cipher.value.ciphertext)>>)])))
    /\ UNCHANGED <<key, held, last, registry>>

\* decrypt({key, token}) is called
CallDecrypt(c) ==
    /\ frames[c].pc = "idle"
    /\ \E token \in ConcurrentTokens(key) :
          frames' = [frames EXCEPT ![c] =
                        [pc |-> "decrypt:parse", op |-> "decrypt", token |-> token,
                         calledWith |-> key, parsed |-> NoToken,
                         iv |-> <<>>, completion |-> NoCall]]
    /\ UNCHANGED <<key, held, last, registry>>

\* lines 342-347: parseToken and its early return
DecryptParse(c) ==
    /\ frames[c].pc = "decrypt:parse"
    /\ LET parseResult == parseToken(frames[c].token) IN
       IF parseResult.tag = "Err"
       THEN Done(c, Return(err(parseResult.error)))
       ELSE frames' = [frames EXCEPT ![c].pc = "decrypt:keyCheck",
                                     ![c].parsed = parseResult.value]
    /\ UNCHANGED <<key, held, last, registry>>

\* lines 350-355: the key length check
DecryptKeyCheck(c) ==
    /\ frames[c].pc = "decrypt:keyCheck"
    /\ LET algorithm          == frames[c].parsed.algorithm
           rawKeyLengthInBits == Len(key.rawKey) * 8
       IN  IF rawKeyLengthInBits # registry[algorithm].keyLength
           THEN Done(c, Return(err(AlgorithmKeyLengthMismatch(rawKeyLengthInBits,
                                                              algorithm))))
           ELSE frames' = [frames EXCEPT ![c].pc = "decrypt:cipher"]
    /\ UNCHANGED <<key, held, last, registry>>

\* lines 357-389: the decipher and the plaintext
DecryptCipher(c) ==
    /\ frames[c].pc = "decrypt:cipher"
    /\ LET parsed   == frames[c].parsed
           decipher == DecipherRun(parsed.algorithm, key.rawKey, parsed.iv,
                                   IF IsGcm(parsed.algorithm) THEN parsed.authTag
                                                              ELSE <<>>,
                                   parsed.ciphertext)
       IN  Done(c,
             IF decipher.tag = "Throw" THEN decryptCatch(decipher)
             ELSE IF Len(decipher.value) = 0
             THEN Return(err(NewError("Failed to decrypt", NoCause)))
             ELSE Return(ok(Utf8Decode(decipher.value))))
    /\ UNCHANGED <<key, held, last, registry>>

\* the caller has the result; the invocation's frame is gone
TakeResult(c) ==
    /\ frames[c].pc = "done"
    /\ frames' = [frames EXCEPT ![c] = Idle]
    /\ UNCHANGED <<key, held, last, registry>>

NextConcurrent ==
    \E c \in Calls :
        \/ CallEncrypt(c)
        \/ EncryptCheck(c)
        \/ EncryptDraw(c)
        \/ EncryptCipher(c)
        \/ CallDecrypt(c)
        \/ DecryptParse(c)
        \/ DecryptKeyCheck(c)
        \/ DecryptCipher(c)
        \/ TakeResult(c)

SpecConcurrent == InitConcurrent /\ [][NextConcurrent]_vars

(***************************************************************************)
(* What the claims speak of.                                               *)
(***************************************************************************)
Completed(op) == last.op = op

ReturnedOk == last.completion.tag = "Return" /\ last.completion.value.tag = "Ok"

ReturnedErr == last.completion.tag = "Return" /\ last.completion.value.tag = "Err"

KeyBits(k) == Len(k.rawKey) * 8

\* the decrypt call that just completed was given the held token and the
\* key that produced it
DecryptedHeldToken ==
    /\ Completed("decrypt")
    /\ held # NoToken
    /\ last.token = held.data.token
    /\ last.key = held.key

\* `other` is `token` with exactly one of the fields after the algorithm
\* replaced by different hex
OneFieldReplaced(token, other) ==
    LET a == SplitColon(token)
        b == SplitColon(other)
    IN  /\ Len(a) = Len(b)
        /\ a[1] = b[1]
        /\ Cardinality({k \in 2..Len(a) : a[k] # b[k]}) = 1
        /\ \A k \in 2..Len(b) : Len(b[k]) > 0 /\ isValidHex(b[k])

IsLowerHexOf(text, buf) ==
    /\ Len(text) = 2 * Len(buf)
    /\ \A i \in 1..Len(text) : \E j \in 1..16 : HexDigitsLower[j] = text[i]
    /\ BufferFromHex(text) = buf

(***************************************************************************)
(* C1  Round trip: encrypt with a key of the algorithm's length and a      *)
(* non-empty plaintext returns Ok, and decrypt of the returned token with  *)
(* the same key returns Ok(plaintext), for every well-formed plaintext.    *)
(***************************************************************************)
C1_RoundTrip ==
    /\ ( /\ Completed("encrypt")
         /\ Len(last.plainText) > 0
         /\ KeyBits(last.key) = symmetricAlgorithmConfig[last.algorithm].keyLength )
       => ReturnedOk
    /\ (DecryptedHeldToken /\ IsWellFormed(held.plainText))
       => last.completion = Return(ok(held.plainText))

\* a CBC token of a plaintext with multi-byte characters has come back
C1_Witness ==
    /\ DecryptedHeldToken
    /\ held.algorithm = "aes-256-cbc"
    /\ held.plainText = <<233, 8364, 55357, 56832>>
    /\ last.completion = Return(ok(held.plainText))

(***************************************************************************)
(* C2  Tamper detection: decrypt, with the key that produced a GCM token,  *)
(* of that token with exactly one of iv, authTag, ciphertext replaced by   *)
(* different hex returns a failure.                                        *)
(***************************************************************************)
C2_TamperDetected ==
    ( /\ Completed("decrypt")
      /\ held # NoToken
      /\ IsGcm(held.algorithm)
      /\ last.key = held.key
      /\ OneFieldReplaced(held.data.token, last.token) )
    => ReturnedErr

\* the authTag of a GCM token was cut to its first bytes and the plaintext
\* came back all the same
C2_Accepted ==
    /\ Completed("decrypt")
    /\ held # NoToken
    /\ IsGcm(held.algorithm)
    /\ last.key = held.key
    /\ OneFieldReplaced(held.data.token, last.token)
    /\ last.completion = Return(ok(held.plainText))

(***************************************************************************)
(* C3  IV freshness.  As claimed: two successful encrypt calls with the    *)
(* same algorithm, key and plaintext return different IVs and tokens.      *)
(***************************************************************************)
RepeatedEncrypt ==
    /\ Completed("encrypt")
    /\ ReturnedOk
    /\ last.earlier # NoToken

C3_NeverSameToken ==
    RepeatedEncrypt =>
        /\ last.completion.value.value.iv # last.earlier.data.iv
        /\ last.completion.value.value.token # last.earlier.data.token

\* C3 as amended: each successful call makes one randomBytes draw and uses
\* what it drew as its IV; the two tokens differ exactly when the two draws
\* differ; and both tokens decrypt with that key to the same plaintext, the
\* original one when it is well-formed.
C3_FreshDrawPerCall ==
    RepeatedEncrypt =>
        LET now    == last.completion.value.value
            before == last.earlier.data
        IN  /\ last.drawn = <<now.iv>>
            /\ (now.token = before.token) <=> (now.iv = before.iv)
            /\ decrypt(now.token, last.key).completion.tag = "Return"
            /\ decrypt(now.token, last.key).completion.value.tag = "Ok"
            /\ decrypt(now.token, last.key).completion
                   = decrypt(before.token, last.key).completion
            /\ IsWellFormed(last.plainText)
                   => decrypt(now.token, last.key).completion
                          = Return(ok(last.plainText))

\* a second call with the same inputs drew another IV
C3_Witness ==
    /\ RepeatedEncrypt
    /\ IsGcm(last.algorithm)
    /\ last.completion.value.value.iv # last.earlier.data.iv
    /\ last.completion.value.value.token # last.earlier.data.token

(***************************************************************************)
(* C4  Length gating in encrypt: with a non-empty plaintext, encrypt       *)
(* returns Ok exactly when the key's bit length is the algorithm's         *)
(* keyLength; otherwise it returns an AlgorithmKeyLengthMismatch that      *)
(* reports the expected and the actual length, and draws no IV.            *)
(***************************************************************************)
C4_LengthGating ==
    (Completed("encrypt") /\ Len(last.plainText) > 0) =>
        LET expected == symmetricAlgorithmConfig[last.algorithm].keyLength
            actual   == KeyBits(last.key)
        IN  /\ actual \in {128, 192, 256}
            /\ ReturnedOk <=> (actual = expected)
            /\ (actual # expected) =>
                  /\ ReturnedErr
                  /\ last.completion.value.error.name = "AlgorithmKeyLengthMismatch"
                  /\ last.completion.value.error.algorithm = last.algorithm
                  /\ last.completion.value.error.expected = expected
                  /\ last.completion.value.error.got = actual
                  /\ last.drawn = <<>>

\* a 128-bit key was given to aes-256-gcm
C4_Witness ==
    /\ Completed("encrypt")
    /\ Len(last.plainText) > 0
    /\ last.algorithm = "aes-256-gcm"
    /\ KeyBits(last.key) = 128
    /\ ReturnedErr
    /\ last.completion.value.error.expected = 256
    /\ last.completion.value.error.got = 128

(***************************************************************************)
(* C5  Key length invariant: every key returned in an Ok by generate or    *)
(* fromString, and so every key the caller holds, has 128, 192 or 256 bits.*)
(***************************************************************************)
C5_KeyLengthInvariant ==
    /\ ((Completed("generate") \/ Completed("fromString")) /\ ReturnedOk)
          => KeyBits(last.completion.value.value) \in {128, 192, 256}
    /\ key # NoKey => KeyBits(key) \in {128, 192, 256}

\* a key came out of fromString
C5_Witness ==
    /\ Completed("fromString")
    /\ ReturnedOk
    /\ KeyBits(last.completion.value.value) = 256
    /\ key = last.completion.value.value

(***************************************************************************)
(* C6  generate(bits) fails with an invalid-key-length error for every     *)
(* length that is not 128, 192 or 256, and returns Ok with a key of        *)
(* bits / 8 bytes for each of these three.                                 *)
(***************************************************************************)
IsInvalidKeyLength(error) ==
    \/ error.name = "InvalidKeyLengthError"
    \/ /\ "cause" \in DOMAIN error
       /\ error.cause.name = "InvalidKeyLengthError"

C6_GenerateGated ==
    Completed("generate") =>
        IF last.lengthInBits \in {128, 192, 256}
        THEN /\ ReturnedOk
             /\ Len(last.completion.value.value.rawKey) * 8 = last.lengthInBits
        ELSE /\ ReturnedErr
             /\ IsInvalidKeyLength(last.completion.value.error)

(***************************************************************************)
(* C7  fromString(str, 'hex') fails for every str that is not valid hex,   *)
(* and fails with an invalid-key-length error for every valid hex str      *)
(* whose decoded length is not 16, 24 or 32 bytes.                         *)
(***************************************************************************)
C7_FromStringGated ==
    Completed("fromString") =>
        /\ ~isValidHex(last.str) => ReturnedErr
        /\ (isValidHex(last.str) /\ Len(last.str) \div 2 \notin {16, 24, 32})
              => /\ ReturnedErr
                 /\ IsInvalidKeyLength(last.completion.value.error)

(***************************************************************************)
(* C8  No exception crosses the public boundary: every call of generate,   *)
(* fromString, encrypt and decrypt returns an Ok or an Err, and what was   *)
(* thrown inside the call is the cause of the Err it returns.              *)
(***************************************************************************)
C8_NoExceptionEscapes ==
    last # NoCall =>
        /\ ReturnedOk \/ ReturnedErr
        /\ last.raised # <<>> =>
              /\ ReturnedErr
              /\ last.completion.value.error.name = "Error"
              /\ last.completion.value.error.cause = last.raised[1]

\* the decipher threw inside decrypt and the caller got an Err
C8_Witness ==
    /\ Completed("decrypt")
    /\ last.raised # <<>>
    /\ ReturnedErr
    /\ last.completion.value.error.cause = last.raised[1]

(***************************************************************************)
(* C9  Token wire format: the token of every Ok result of encrypt is the   *)
(* algorithm identifier passed in, then the lowercase hex of the result's  *)
(* iv, authTag (GCM only) and ciphertext, joined with ':', 4 fields for    *)
(* GCM and 3 for CBC.                                                      *)
(***************************************************************************)
C9_TokenFormat ==
    (Completed("encrypt") /\ ReturnedOk) =>
        LET data  == last.completion.value.value
            parts == SplitColon(data.token)
        IN  /\ data.algorithm = last.algorithm
            /\ parts[1] = AlgorithmText(last.algorithm)
            /\ IF last.algorithm \in {"aes-128-gcm", "aes-192-gcm", "aes-256-gcm"}
               THEN /\ Len(parts) = 4
                    /\ IsLowerHexOf(parts[2], data.iv)
                    /\ IsLowerHexOf(parts[3], data.authTag)
                    /\ IsLowerHexOf(parts[4], data.ciphertext)
               ELSE /\ Len(parts) = 3
                    /\ "authTag" \notin DOMAIN data
                    /\ IsLowerHexOf(parts[2], data.iv)
                    /\ IsLowerHexOf(parts[3], data.ciphertext)

\* a GCM token of four fields whose hex holds a letter digit
C9_Witness ==
    /\ Completed("encrypt")
    /\ ReturnedOk
    /\ last.algorithm = "aes-192-gcm"
    /\ Len(SplitColon(last.completion.value.value.token)) = 4
    /\ \E i \in 1..Len(last.completion.value.value.token) :
          last.completion.value.value.token[i] = "f"

(***************************************************************************)
(* C10  Unknown algorithm: decrypt of a token whose first field is none of *)
(* the six algorithm identifiers returns an UnsupportedOrInvalidAlgorithm  *)
(* failure that carries that first field, whatever the key.                *)
(***************************************************************************)
FirstFieldUnknown(token) ==
    \A a \in SymmetricEncryptionAlgorithm : SplitColon(token)[1] # AlgorithmText(a)

C10_UnknownAlgorithm ==
    (Completed("decrypt") /\ FirstFieldUnknown(last.token)) =>
        /\ ReturnedErr
        /\ last.completion.value.error.name = "UnsupportedOrInvalidAlgorithm"
        /\ last.completion.value.error.algorithm = SplitColon(last.token)[1]
        /\ last.stage = "Parsing"

\* "invalid token" was refused, and the failure carries the text
C10_Witness ==
    /\ Completed("decrypt")
    /\ last.token = <<"i","n","v","a","l","i","d"," ","t","o","k","e","n">>
    /\ ReturnedErr
    /\ last.completion.value.error.algorithm = last.token

\* the supported algorithms whose identifier is the token's first field
AlgorithmOf(token) ==
    {a \in SymmetricEncryptionAlgorithm : AlgorithmText(a) = SplitColon(token)[1]}

\* the number of fields of the algorithm's tokenFormat
LayoutLength(algorithm) == IF IsGcm(algorithm) THEN 4 ELSE 3

\* the structural parse failure: new Error('Invalid token')
IsInvalidToken(error) == error = NewError("Invalid token", NoCause)

(***************************************************************************)
(* C11  Field-count gate: decrypt of a token whose first field is a        *)
(* supported algorithm identifier but whose number of colon-separated      *)
(* fields is not the layout's (4 for GCM, 3 for CBC) fails with the        *)
(* structural parse failure 'Invalid token', and with no other kind.       *)
(***************************************************************************)
C11_FieldCountGate ==
    \A a \in SymmetricEncryptionAlgorithm :
        ( /\ Completed("decrypt")
          /\ a \in AlgorithmOf(last.token)
          /\ Len(SplitColon(last.token)) # LayoutLength(a) )
        => /\ ReturnedErr
           /\ IsInvalidToken(last.completion.value.error)

\* what the code does there: the failure is the unknown-algorithm one, and
\* it names a supported algorithm
C11_ReportedAsUnknownAlgorithm ==
    \A a \in SymmetricEncryptionAlgorithm :
        ( /\ Completed("decrypt")
          /\ a \in AlgorithmOf(last.token)
          /\ Len(SplitColon(last.token)) # LayoutLength(a) )
        => /\ ReturnedErr
           /\ last.completion.value.error = UnsupportedOrInvalidAlgorithm(AlgorithmText(a))
           /\ last.stage = "Parsing"

\* Buffer.from(field, 'hex') consumes the whole field: every pair of
\* characters is a byte
DecodesAsHex(field) == 2 * Len(BufferFromHex(field)) = Len(field)

\* the token's first field is a supported algorithm identifier and the
\* number of its fields is that algorithm's
HasLayout(token) ==
    \E a \in AlgorithmOf(token) : Len(SplitColon(token)) = LayoutLength(a)

\* one of the fields after the first is empty or is not hex
SomeFieldNotHex(token) ==
    LET parts == SplitColon(token)
    IN  \E k \in 2..Len(parts) : Len(parts[k]) = 0 \/ ~DecodesAsHex(parts[k])

(***************************************************************************)
(* C12  Hex-field gate: decrypt of a token with a supported algorithm      *)
(* identifier and the right number of fields fails with 'Invalid token'    *)
(* whenever the iv, the authTag (GCM) or the ciphertext field is empty or  *)
(* is not hex; when every field is hex, parsing succeeds whatever the      *)
(* decoded lengths are.                                                    *)
(***************************************************************************)
C12_HexFieldGate ==
    (Completed("decrypt") /\ HasLayout(last.token)) =>
        IF SomeFieldNotHex(last.token)
        THEN /\ ReturnedErr
             /\ IsInvalidToken(last.completion.value.error)
             /\ last.stage = "Parsing"
        ELSE last.stage # "Parsing"

\* a CBC token whose ciphertext field has an odd number of hex digits was
\* refused as an invalid token
C12_Witness ==
    /\ Completed("decrypt")
    /\ last.token = JoinColon(<<AlgorithmText("aes-192-cbc"), <<"0","0">>, <<"1","1","2">>>>)
    /\ ReturnedErr
    /\ IsInvalidToken(last.completion.value.error)

\* a CBC token with a one-byte IV went past parsing
C12_ShortFieldsParsed ==
    /\ Completed("decrypt")
    /\ last.token = JoinColon(<<AlgorithmText("aes-128-cbc"), <<"0","0">>, <<"1","1","2","2">>>>)
    /\ last.stage # "Parsing"

\* the token parses: supported identifier, the layout's number of fields,
\* every field after the first non-empty hex
Parses(token) == HasLayout(token) /\ ~SomeFieldNotHex(token)

\* the decrypt call that just completed was given a token that parses and a
\* key that is not of the token's algorithm's length
DecryptedWithWrongLength ==
    /\ Completed("decrypt")
    /\ Parses(last.token)
    /\ \E a \in AlgorithmOf(last.token) :
          KeyBits(last.key) # symmetricAlgorithmConfig[a].keyLength

(***************************************************************************)
(* C13  Key check in decrypt: for every token that parses, decrypt with a  *)
(* key whose bit length is not the parsed algorithm's keyLength fails with *)
(* AlgorithmKeyLengthMismatch (naming the algorithm, its length and the    *)
(* key's), and no cipher step is executed.                                 *)
(***************************************************************************)
C13_KeyCheckInDecrypt ==
    DecryptedWithWrongLength =>
        /\ ReturnedErr
        /\ last.completion.value.error.name = "AlgorithmKeyLengthMismatch"
        /\ \E a \in AlgorithmOf(last.token) :
              /\ last.completion.value.error.algorithm = a
              /\ last.completion.value.error.expected = symmetricAlgorithmConfig[a].keyLength
        /\ last.completion.value.error.got = KeyBits(last.key)
        /\ last.stage = "KeyValidation"
        /\ last.raised = <<>>

\* a token that encrypt returned for a 128-bit key was given to decrypt with
\* a 256-bit key and refused
C13_Witness ==
    /\ DecryptedWithWrongLength
    /\ held # NoToken
    /\ last.token = held.data.token
    /\ KeyBits(held.key) = 128
    /\ KeyBits(last.key) = 256
    /\ ReturnedErr
    /\ last.stage = "KeyValidation"

\* the decrypt call that just completed was given the held token and a key
\* of the same length as the key that produced it, but another key
DecryptedWithOtherKey ==
    /\ Completed("decrypt")
    /\ held # NoToken
    /\ last.token = held.data.token
    /\ last.key # held.key
    /\ KeyBits(last.key) = KeyBits(held.key)

(***************************************************************************)
(* C14  Key isolation: for two different keys A and B of the same length,  *)
(* decrypt with B of a token that encrypt produced with A fails for the    *)
(* GCM algorithms, and for the CBC algorithms fails or returns another     *)
(* plaintext; it never returns Ok(original plaintext).                     *)
(***************************************************************************)
C14_KeyIsolation ==
    DecryptedWithOtherKey =>
        /\ IsGcm(held.algorithm) => ReturnedErr
        /\ last.completion # Return(ok(held.plainText))

\* a GCM token made with a generated 128-bit key was refused under the
\* 128-bit key read from a string: the tag does not verify
C14_Witness ==
    /\ DecryptedWithOtherKey
    /\ held.algorithm = "aes-128-gcm"
    /\ ReturnedErr
    /\ last.stage = "CipherExecution"
    /\ last.raised # <<>>

(***************************************************************************)
(* C15  Empty plaintext: encrypt of a zero-length plaintext fails with     *)
(* 'plaintext can not be empty' for every algorithm and every key, also a  *)
(* key that is not of the algorithm's length (the check comes first), and  *)
(* returns no token: nothing is drawn and nothing is thrown.               *)
(***************************************************************************)
C15_EmptyPlaintextFirst ==
    (Completed("encrypt") /\ Len(last.plainText) = 0) =>
        /\ last.completion = Return(err(NewError("plaintext can not be empty", NoCause)))
        /\ last.drawn = <<>>
        /\ last.raised = <<>>

\* an empty plaintext was refused as empty although the key was a 128-bit
\* one and the algorithm aes-256-gcm
C15_Witness ==
    /\ Completed("encrypt")
    /\ Len(last.plainText) = 0
    /\ last.algorithm = "aes-256-gcm"
    /\ KeyBits(last.key) = 128
    /\ ReturnedErr
    /\ last.completion.value.error.message = "plaintext can not be empty"

\* a method of a Result has just returned
ResultMethodReturned == last.op \in {"map", "mapErr", "andThen"}

(***************************************************************************)
(* C16  Result combinators preserve the variant: for Ok(v), map(f) is      *)
(* Ok(f(v)), mapErr(g) is Ok(v) and andThen(h) is h(v); for Err(e), map(f) *)
(* is Err(e), mapErr(g) is Err(g(e)) and andThen(h) is Err(e) with h not   *)
(* invoked; and of isOk and isErr exactly one is true of every Result.     *)
(***************************************************************************)
C16_Combinators ==
    ResultMethodReturned =>
        LET r == last.receiver
            v == r.value
            e == r.error
            f == last.fn
        IN  /\ (r.tag = "Ok" /\ last.op = "map") =>
                    /\ last.completion = Return([tag |-> "Ok", value |-> Call(f, v)])
                    /\ last.calls = <<[fn |-> f, arg |-> v]>>
            /\ (r.tag = "Ok" /\ last.op = "mapErr") =>
                    /\ last.completion = Return([tag |-> "Ok", value |-> v])
                    /\ last.calls = <<>>
            /\ (r.tag = "Ok" /\ last.op = "andThen") =>
                    /\ last.completion = Return(Call(f, v))
                    /\ last.calls = <<[fn |-> f, arg |-> v]>>
            /\ (r.tag = "Err" /\ last.op = "map") =>
                    /\ last.completion = Return([tag |-> "Err", error |-> e])
                    /\ last.calls = <<>>
            /\ (r.tag = "Err" /\ last.op = "mapErr") =>
                    /\ last.completion = Return([tag |-> "Err", error |-> Call(f, e)])
                    /\ last.calls = <<[fn |-> f, arg |-> e]>>
            /\ (r.tag = "Err" /\ last.op = "andThen") =>
                    /\ last.completion = Return([tag |-> "Err", error |-> e])
                    /\ last.calls = <<>>
            /\ last.isOk # last.isErr
            /\ last.isOk = (last.completion.value.tag = "Ok")

\* andThen on an Err returned the Err and did not invoke the callback
C16_Witness ==
    /\ last.op = "andThen"
    /\ last.receiver = [tag |-> "Err", error |-> <<"Error">>]
    /\ last.fn = "okIncrement"
    /\ last.completion = Return(last.receiver)
    /\ last.calls = <<>>

\* the key of the decrypt call that just completed is of the length of the
\* algorithm its token names
KeyFitsToken ==
    \A a \in AlgorithmOf(last.token) :
        KeyBits(last.key) = symmetricAlgorithmConfig[a].keyLength

\* the failure of the call is one that parsing makes
IsParseFailure(error) ==
    IsInvalidToken(error) \/ error.name = "UnsupportedOrInvalidAlgorithm"

(***************************************************************************)
(* C17  Stage order of decrypt: Parsing, KeyValidation, CipherExecution,   *)
(* Done.  A token that does not parse yields the parse failure, whatever   *)
(* the key's length; a key of the wrong length yields the key length       *)
(* mismatch before any cipher step; Ok(plaintext) is returned only when    *)
(* all three stages succeeded; a failure at any stage is an Err that       *)
(* carries no plaintext.                                                   *)
(***************************************************************************)
C17_StageOrder ==
    Completed("decrypt") =>
        /\ ~Parses(last.token) =>
              /\ last.stage = "Parsing"
              /\ ReturnedErr
              /\ IsParseFailure(last.completion.value.error)
        /\ (Parses(last.token) /\ ~KeyFitsToken) =>
              /\ last.stage = "KeyValidation"
              /\ ReturnedErr
              /\ last.completion.value.error.name = "AlgorithmKeyLengthMismatch"
              /\ last.raised = <<>>
        /\ (Parses(last.token) /\ KeyFitsToken) =>
              last.stage \in {"CipherExecution", "Done"}
        /\ ReturnedOk <=> last.stage = "Done"
        /\ last.stage # "Done" =>
              /\ ReturnedErr
              /\ DOMAIN last.completion.value = {"tag", "error"}

\* a token with a field that is not hex, given with a key that is not of
\* its algorithm's length, was refused by parsing
C17_Witness ==
    /\ Completed("decrypt")
    /\ last.token = JoinColon(<<AlgorithmText("aes-128-gcm"), <<"z","z">>, <<"0","0">>, <<"0","0">>>>)
    /\ KeyBits(last.key) = 256
    /\ last.stage = "Parsing"
    /\ IsInvalidToken(last.completion.value.error)

(***************************************************************************)
(* C18  IV length: in every Ok result of encrypt the IV has the bit length *)
(* the registry gives for the algorithm, iv.length * 8 = ivLength: 92 bits *)
(* for the three GCM algorithms and 128 bits for the three CBC ones.       *)
(***************************************************************************)
C18_IvLength ==
    (Completed("encrypt") /\ ReturnedOk) =>
        /\ Len(last.completion.value.value.iv) * 8
              = symmetricAlgorithmConfig[last.algorithm].ivLength
        /\ symmetricAlgorithmConfig[last.algorithm].ivLength
              = IF IsGcm(last.algorithm) THEN 92 ELSE 128

\* what the code does: the IV has the whole bytes of ivLength / 8, which are
\* 11 bytes (88 bits) for GCM and 16 bytes (128 bits) for CBC
C18_IvWholeBytes ==
    (Completed("encrypt") /\ ReturnedOk) =>
        /\ Len(last.completion.value.value.iv)
              = symmetricAlgorithmConfig[last.algorithm].ivLength \div 8
        /\ Len(last.completion.value.value.iv)
              = IF IsGcm(last.algorithm) THEN 11 ELSE 16
        /\ last.drawn = <<last.completion.value.value.iv>>

\* what the invocation of frame f returns when it runs alone, on the key it
\* was called with and with the IV draw it made
Alone(f) ==
    IF f.op = "encrypt"
    THEN encrypt(f.algorithm, f.calledWith, f.plainText, f.seed).completion
    ELSE decrypt(f.token, f.calledWith).completion

(***************************************************************************)
(* C19  Independence of calls: in any interleaving of encrypt and decrypt  *)
(* invocations in progress at the same time, every invocation returns what *)
(* it returns when run alone (given its own IV draw), and the key's rawKey *)
(* and the registry are as they were, whether the invocation succeeded or  *)
(* failed.                                                                 *)
(***************************************************************************)
C19_Independence ==
    /\ registry = symmetricAlgorithmConfig
    /\ \A c \in DOMAIN frames :
          /\ frames[c].pc # "idle" => key = frames[c].calledWith
          /\ frames[c].pc = "done" => frames[c].completion = Alone(frames[c])

\* two encrypt invocations that drew different IVs have both completed
\* with a token, neither yet taken by its caller
C19_Witness ==
    \E c, d \in DOMAIN frames :
        /\ frames[c].pc = "done" /\ frames[c].op = "encrypt"
        /\ frames[d].pc = "done" /\ frames[d].op = "encrypt"
        /\ frames[c].seed # frames[d].seed
        /\ frames[c].completion.value.tag = "Ok"
        /\ frames[d].completion.value.tag = "Ok"

\* a decrypt invocation has failed while an encrypt invocation was between
\* its IV draw and its cipher
C19_FailedBeside ==
    \E c, d \in DOMAIN frames :
        /\ frames[c].pc = "done" /\ frames[c].op = "decrypt"
        /\ frames[c].completion.value.tag = "Err"
        /\ frames[d].pc = "encrypt:cipher"

=============================================================================
